---- MODULE Spec2Model ----
(***************************************************************************)
(* A model of build.py, the release-packaging script of SNIBypassGUI.      *)
(*                                                                         *)
(* The state is the three directory trees the script touches (the source  *)
(* tree `files`, the rule sources `src_rules`, the published tree          *)
(* `target-repo/files`), the persisted manifest `target-repo/latest.json`, *)
(* and the position and local variables of one process running main().    *)
(*                                                                         *)
(* Representation.                                                         *)
(*   - A path is the sequence of its components; a slash-normalised        *)
(*     relative path and a URL are represented by their split on "/".      *)
(*   - A tree is [dirs, files]: the set of directories (the root is <<>>)  *)
(*     and a function from file paths to contents.  A tree with no root    *)
(*     directory does not exist on disk.                                   *)
(*   - A binary content is [type |-> "bin", bytes |-> <<...>>]; one model  *)
(*     byte stands for CHUNK_SIZE / 2 real bytes.                          *)
(*   - A Python/JSON value of the manifest is tagged: [t |-> "dict", ...], *)
(*     [t |-> "list", ...], [t |-> "null"]; strings are sequences, so the  *)
(*     empty string is <<>>.                                               *)
(*   - SHA-256 is modelled as an injective tag on the content.             *)
(***************************************************************************)
EXTENDS Integers, Sequences, FiniteSets, TLC

VARIABLES
    source,              \* the tree under SOURCE_DIR
    rules,               \* RULES_SRC_DIR: [meta, txt]
    target,              \* the tree under TARGET_FILES_DIR
    manifest_file,       \* target-repo/latest.json
    pc,                  \* position of main(): idle, exe, assets, cleanup, write
    version,             \* locals of main()
    old_manifest,
    new_manifest,
    valid_target_files,
    branch,              \* what step 4 did: none, skipped, unchanged, republished
    outcome,             \* how the last run ended
    start,               \* snapshot taken when the current (or last) run started
    crashes,             \* number of runs killed from outside so far
    chunker              \* a call of split_file on its own: arguments and result

vars == <<source, rules, target, manifest_file, pc, version, old_manifest,
          new_manifest, valid_target_files, branch, outcome, start, crashes,
          chunker>>

----------------------------------------------------------------------------
(* Bounds of the model *)

\* timestamps a run may read from the clock: 1..MaxTime
MaxTime == 2
\* runs that may be killed from outside in one behaviour (SpecCrash)
MaxCrashes == 1
\* longest file, in bytes, and largest chunk size handed to the chunker on its
\* own (SpecChunk)
MaxFileLen == 4
MaxChunk == 3
\* longest metadata list handed to the rule compiler on its own (SpecRules)
MaxRules == 3

----------------------------------------------------------------------------
(* Configuration (build.py lines 10-21) *)

EXE_NAME == "SNIBypassGUI.exe"
VERSION_FILE == "version.txt"
RULES_META_FILE == "rules_meta.json"
FINAL_RULES_NAME == "ProxyRules.json"
\* "https://snib.racpast.com/files/" split on "/" (the last, empty, piece is
\* where a path is appended)
BASE_URL == <<"https:", "", "snib.racpast.com", "files">>
\* 20 MiB, in model bytes of 10 MiB
CHUNK_SIZE == 2
TMP_ZIP == "update.zip"

----------------------------------------------------------------------------
(* Values *)

NoFile == [type |-> "absent"]
Bin(b) == [type |-> "bin", bytes |-> b]
Text(s) == [type |-> "text", chars |-> s]
JsonDoc(v) == [type |-> "json", value |-> v]

PyNull == [t |-> "null"]
PyList(s) == [t |-> "list", v |-> s]
PyDict(r) == [t |-> "dict", v |-> r]
EmptyDict == PyDict([k \in {} |-> PyNull])

Last(s) == s[Len(s)]
Parent(p) == SubSeq(p, 1, Len(p) - 1)

Min(a, b) == IF a < b THEN a ELSE b

----------------------------------------------------------------------------
(* Directory trees and the file-system calls the script makes *)

NoTree == [dirs |-> {}, files |-> [p \in {} |-> NoFile]]
EmptyTree == [dirs |-> {<<>>}, files |-> [p \in {} |-> NoFile]]

IsFile(t, p) == p \in DOMAIN t.files
IsDir(t, p) == p \in t.dirs
\* os.path.exists
Exists(t, p) == IsFile(t, p) \/ IsDir(t, p)

\* proper ancestors of a path, the root included
Ancestors(p) == {SubSeq(p, 1, k) : k \in 0..(Len(p) - 1)}

\* the tree that holds exactly the files of f and the directories they need
MkTree(f) ==
    [dirs |-> {<<>>} \cup UNION {Ancestors(p) : p \in DOMAIN f}, files |-> f]

\* every entry lies in a directory, and nothing is both a file and a directory
WellFormed(t) ==
    /\ \A p \in DOMAIN t.files : p \notin t.dirs /\ Parent(p) \in t.dirs
    /\ \A d \in t.dirs : d = <<>> \/ Parent(d) \in t.dirs
    /\ \A p \in DOMAIN t.files : p # <<>>

\* A file-system call returns [err, tree]: err is "" or the exception raised.
Ok(t) == [err |-> "", tree |-> t]
Fail(e, t) == [err |-> e, tree |-> t]

\* open(path, 'w' / 'wb') followed by a write of the whole content
WriteFile(t, p, c) ==
    IF IsDir(t, p) THEN Fail("IsADirectoryError", t)
    ELSE IF ~IsDir(t, Parent(p)) THEN
        Fail(IF IsFile(t, Parent(p)) THEN "NotADirectoryError"
             ELSE "FileNotFoundError", t)
    ELSE Ok([t EXCEPT !.files =
                [q \in DOMAIN t.files \cup {p} |-> IF q = p THEN c ELSE t.files[q]]])

\* os.remove
Remove(t, p) ==
    IF IsFile(t, p)
    THEN Ok([t EXCEPT !.files = [q \in DOMAIN t.files \ {p} |-> t.files[q]]])
    ELSE Fail(IF IsDir(t, p) THEN "IsADirectoryError" ELSE "FileNotFoundError", t)

\* the entries directly inside directory d
Children(t, d) ==
    {p \in DOMAIN t.files \cup t.dirs : p # <<>> /\ Parent(p) = d}

\* os.rmdir
Rmdir(t, d) ==
    IF ~IsDir(t, d) THEN Fail("NotADirectoryError", t)
    ELSE IF Children(t, d) # {} THEN Fail("OSError", t)
    ELSE Ok([t EXCEPT !.dirs = t.dirs \ {d}])

\* os.makedirs(path, exist_ok=True): creates the missing directories from the
\* top down; a component that exists as a file makes the mkdir of it (or of
\* what lies below it) fail, and directories created before that stay.
RECURSIVE MakeDirsFrom(_, _, _)
MakeDirsFrom(t, p, k) ==
    IF k > Len(p) THEN Ok(t)
    ELSE LET d == SubSeq(p, 1, k) IN
         IF IsFile(t, d)
         THEN Fail(IF k = Len(p) THEN "FileExistsError" ELSE "NotADirectoryError", t)
         ELSE MakeDirsFrom([t EXCEPT !.dirs = t.dirs \cup {d}], p, k + 1)

MakeDirs(t, p) == MakeDirsFrom(t, p, 0)

\* shutil.copy2(src, dst): a dst that is a directory receives the file under
\* the source's base name
Copy2(t, c, dst, basename) ==
    WriteFile(t, IF IsDir(t, dst) THEN Append(dst, basename) ELSE dst, c)

----------------------------------------------------------------------------
(* Directory listings and os.walk *)

Pad3(i) ==
    IF i < 10 THEN "00" \o ToString(i)
    ELSE IF i < 100 THEN "0" \o ToString(i) ELSE ToString(i)

\* f"{filename}.part{idx:03d}"
PartName(filename, idx) == filename \o ".part" \o Pad3(idx)

\* The order in which a directory listing returns names.  The script relies
\* on os.walk, which lists a directory in the order the file system returns;
\* the order is fixed here, and it is the same for every listing.
ListingOrder ==
    <<EXE_NAME, VERSION_FILE, "a", "x", "Data", FINAL_RULES_NAME, TMP_ZIP,
      PartName(TMP_ZIP, 0), PartName(TMP_ZIP, 1), PartName(TMP_ZIP, 2),
      PartName(TMP_ZIP, 3), "old.bin">>

Names == {ListingOrder[i] : i \in 1..Len(ListingOrder)}

ListFiles(t, d) == SelectSeq(ListingOrder, LAMBDA n : IsFile(t, Append(d, n)))
ListDirs(t, d) == SelectSeq(ListingOrder, LAMBDA n : IsDir(t, Append(d, n)))

\* os.walk(top, topdown): the sequence of (root, dirs, files) it yields.  A top
\* that is no directory yields nothing.
RECURSIVE Walk(_, _, _)
RECURSIVE WalkEach(_, _, _, _)
Walk(t, top, topdown) ==
    IF ~IsDir(t, top) THEN <<>>
    ELSE LET ds == ListDirs(t, top)
             entry == [root |-> top, dirs |-> ds, files |-> ListFiles(t, top)]
             below == WalkEach(t, top, ds, topdown)
         IN  IF topdown THEN <<entry>> \o below ELSE below \o <<entry>>
WalkEach(t, top, ds, topdown) ==
    IF ds = <<>> THEN <<>>
    ELSE Walk(t, Append(top, Head(ds)), topdown)
            \o WalkEach(t, top, Tail(ds), topdown)

----------------------------------------------------------------------------
(* Hasher, archive and chunker *)

PyStr(s) == [t |-> "str", v |-> s]

\* hashlib.sha256(...).hexdigest(): injective on contents
HexDigest(c) == PyStr(<<"sha256", c>>)

\* calculate_sha256(file_path): None for a path that does not exist
calculate_sha256(t, p) ==
    IF ~Exists(t, p) THEN PyNull ELSE HexDigest(t.files[p])

\* zipfile.ZipFile(...).write(src_exe, EXE_NAME): a container that holds the
\* member after a header, so it is never empty and it determines the member
ZipHeader == <<80>>
ZipOf(c) == Bin(ZipHeader \o c.bytes)

\* a read that returns one byte less than asked for while the file position
\* moves on by the full size
ReadChunkShort(bytes, idx, size) ==
    SubSeq(bytes, idx * size + 1, Min(Len(bytes), (idx + 1) * size - 1))

\* f.read(size) at offset idx * size
ReadChunkOf(bytes, idx, size) ==
    SubSeq(bytes, idx * size + 1, Min(Len(bytes), (idx + 1) * size))

\* f.read(CHUNK_SIZE) at offset idx * CHUNK_SIZE
ReadChunk(bytes, idx) == ReadChunkOf(bytes, idx, CHUNK_SIZE)

\* split_file's loop from index idx on, reading size bytes at a time:
\* [err, tree, parts]
RECURSIVE SplitLoopOf(_, _, _, _, _, _, _)
SplitLoopOf(t, filename, bytes, dest_dir, idx, parts, size) ==
    LET chunk == ReadChunkOf(bytes, idx, size) IN
    IF chunk = <<>> THEN [err |-> "", tree |-> t, parts |-> parts]
    ELSE LET part_name == PartName(filename, idx)
             w == WriteFile(t, Append(dest_dir, part_name), Bin(chunk))
         IN  IF w.err # "" THEN [err |-> w.err, tree |-> w.tree, parts |-> parts]
             ELSE SplitLoopOf(w.tree, filename, bytes, dest_dir, idx + 1,
                              Append(parts, part_name), size)

\* the loop with the configured chunk size
SplitLoop(t, filename, bytes, dest_dir, idx, parts) ==
    SplitLoopOf(t, filename, bytes, dest_dir, idx, parts, CHUNK_SIZE)

\* split_file(source_path, dest_dir), the source being a file of tree t
split_file(t, source_path, dest_dir) ==
    SplitLoop(t, Last(source_path), t.files[source_path].bytes, dest_dir, 0, <<>>)

\* split_file under a configuration whose CHUNK_SIZE is size
split_file_of(t, source_path, dest_dir, size) ==
    SplitLoopOf(t, Last(source_path), t.files[source_path].bytes, dest_dir, 0,
                <<>>, size)

\* normalize_path: os.sep is the separator the components were split on
normalize_path(p) == p

----------------------------------------------------------------------------
(* Rule compiler (compile_rules) *)

Whitespace == {" ", "\n", "\r", "\t"}

\* str.strip() on a sequence of characters
RECURSIVE LStrip(_)
LStrip(s) == IF s # <<>> /\ Head(s) \in Whitespace THEN LStrip(Tail(s)) ELSE s
RECURSIVE RStrip(_)
RStrip(s) ==
    IF s # <<>> /\ Last(s) \in Whitespace THEN RStrip(Parent(s)) ELSE s
Strip(s) == RStrip(LStrip(s))

\* str.splitlines(): lines end at "\n", "\r" or "\r\n"; cur is the line read
\* so far
RECURSIVE SplitLinesFrom(_, _)
SplitLinesFrom(s, cur) ==
    IF s = <<>> THEN (IF cur = <<>> THEN <<>> ELSE <<cur>>)
    ELSE IF Head(s) = "\r" /\ Len(s) > 1 /\ s[2] = "\n"
         THEN <<cur>> \o SplitLinesFrom(Tail(Tail(s)), <<>>)
    ELSE IF Head(s) \in {"\n", "\r"}
         THEN <<cur>> \o SplitLinesFrom(Tail(s), <<>>)
    ELSE SplitLinesFrom(Tail(s), Append(cur, Head(s)))
SplitLines(s) == SplitLinesFrom(s, <<>>)

\* "\r\n".join(lines)
RECURSIVE JoinCRLF(_)
JoinCRLF(lines) ==
    IF lines = <<>> THEN <<>>
    ELSE IF Len(lines) = 1 THEN Head(lines)
    ELSE Head(lines) \o <<"\r", "\n">> \o JoinCRLF(Tail(lines))

\* base64.b64encode(s.encode('utf-8')).decode('utf-8'): an injective code
Base64(s) == [i \in 1..Len(s) |-> <<"b64", s[i]>>]

\* a loop body that skips only the items that have no "Id" at all
CompileItemIfPresent(item, txt) ==
    IF "Id" \notin DOMAIN item THEN <<>>
    ELSE << [k \in DOMAIN item \cup {"Hosts", "Status"} |->
               IF k = "Hosts"
               THEN PyStr(IF item.Id \in DOMAIN txt /\ Strip(txt[item.Id].chars) # <<>>
                          THEN Base64(JoinCRLF(SplitLines(Strip(txt[item.Id].chars))))
                          ELSE <<>>)
               ELSE IF k = "Status"
                    THEN (IF "Status" \in DOMAIN item THEN item.Status ELSE 0)
               ELSE item[k]] >>

\* the body of the loop over rules_list for one item: <<>> when the item is
\* skipped, else the one compiled item
CompileItem(item, txt) ==
    LET rule_id == IF "Id" \in DOMAIN item THEN item.Id ELSE "" IN
    IF rule_id = "" THEN <<>>
    ELSE LET hosts_content ==
                 IF rule_id \in DOMAIN txt THEN Strip(txt[rule_id].chars) ELSE <<>>
             encoded_hosts ==
                 IF hosts_content # <<>>
                 THEN Base64(JoinCRLF(SplitLines(hosts_content))) ELSE <<>>
         IN  << [k \in DOMAIN item \cup {"Hosts", "Status"} |->
                    IF k = "Hosts" THEN PyStr(encoded_hosts)
                    ELSE IF k = "Status"
                         THEN (IF "Status" \in DOMAIN item THEN item.Status ELSE 0)
                    ELSE item[k]] >>

RECURSIVE CompileList(_, _)
CompileList(rules_list, txt) ==
    IF rules_list = <<>> THEN <<>>
    ELSE CompileItem(Head(rules_list), txt) \o CompileList(Tail(rules_list), txt)

DataDir == <<"Data">>

\* a compilation that writes nothing
compile_rules_unwritten(src, r) == Ok(src)

\* compile_rules(): [err, tree] for the source tree; without the meta file
\* nothing is done
compile_rules(src, r) ==
    IF r.meta = NoFile THEN Ok(src)
    ELSE LET compiled_list == CompileList(r.meta.value, r.txt)
             md == MakeDirs(src, DataDir)
         IN  IF md.err # "" THEN md
             ELSE WriteFile(md.tree, Append(DataDir, FINAL_RULES_NAME),
                            JsonDoc(PyList(compiled_list)))

----------------------------------------------------------------------------
(* main(): steps 1-3, set-up (lines 102-138) *)

DefaultVersion == <<"V1.0.0">>

\* step 2: the version marker, read and stripped, or the default
ReadVersion(src) ==
    IF Exists(src, <<VERSION_FILE>>)
    THEN Strip(src.files[<<VERSION_FILE>>].chars) ELSE DefaultVersion

\* step 3: json.load of the manifest file; a missing file and a file that does
\* not parse both leave old_manifest = {}
LoadManifest(f) == IF f.type = "json" THEN f.value ELSE EmptyDict

DefaultExecutable ==
    PyDict([update_required |-> FALSE, hash |-> PyStr(<<>>), parts |-> <<>>])

\* the new_manifest literal of lines 133-138
InitialManifest(v, now) ==
    PyDict([version |-> v, timestamp |-> now,
            executable |-> DefaultExecutable, assets |-> <<>>])

----------------------------------------------------------------------------
(* main(): step 4, the executable (lines 140-169) *)

SrcExe == <<EXE_NAME>>
TmpZip == <<TMP_ZIP>>

\* a comparison that never finds the digest unchanged
HashNeverUnchanged(cur_hash, old_hash) == FALSE

\* line 146
HashUnchanged(cur_hash, old_hash) == cur_hash = old_hash

\* a reuse that recomputes the flag instead of carrying it over
ReusedEntryFlagReset(old) ==
    [old.v.executable EXCEPT !.v.update_required = FALSE]

\* a reuse that carries nothing over
ReusedEntryDropped(old) ==
    PyDict([update_required |-> FALSE, hash |-> PyStr(<<>>), parts |-> <<>>])

\* line 148: the previous entry itself
ReusedEntry(old) == old.v.executable

\* line 150
UrlFileName(url) == Last(url)

\* lines 160-163
PartUrl(p) == BASE_URL \o <<p>>

\* a republished entry that keeps the default flag
RepublishedEntryFlagKept(cur_hash, parts) ==
    PyDict([update_required |-> FALSE, hash |-> cur_hash,
            parts |-> [i \in 1..Len(parts) |-> BASE_URL \o <<parts[i]>>]])

\* lines 165-169
RepublishedEntry(cur_hash, parts) ==
    PyDict([update_required |-> TRUE, hash |-> cur_hash,
            parts |-> [i \in 1..Len(parts) |-> PartUrl(parts[i])]])

SetExecutable(m, e) == [m EXCEPT !.v.executable = e]

\* the result of a step: the exception that ended it ("" for none), the
\* target tree, the manifest under construction, the target file set
StepResult(e, t, m, valid, b) ==
    [err |-> e, target |-> t, new_manifest |-> m, valid |-> valid, branch |-> b]

\* lines 152-169
Republish(src, t, m, valid, cur_hash) ==
    LET zf == WriteFile(t, TmpZip, ZipOf(src.files[SrcExe])) IN
    IF zf.err # "" THEN StepResult(zf.err, zf.tree, m, valid, "republished")
    ELSE LET sp == split_file(zf.tree, TmpZip, <<>>) IN
         IF sp.err # "" THEN StepResult(sp.err, sp.tree, m, valid, "republished")
         ELSE LET rm == IF Exists(sp.tree, TmpZip) THEN Remove(sp.tree, TmpZip)
                        ELSE Ok(sp.tree)
              IN  StepResult(rm.err, rm.tree,
                             SetExecutable(m, RepublishedEntry(cur_hash, sp.parts)),
                             valid \cup {<<sp.parts[i]>> : i \in 1..Len(sp.parts)},
                             "republished")

\* lines 146-150
Reuse(t, old, m, valid) ==
    LET e == ReusedEntry(old) IN
    IF "parts" \notin DOMAIN e.v THEN StepResult("KeyError", t, SetExecutable(m, e), valid, "unchanged")
    ELSE StepResult("", t, SetExecutable(m, e),
                    valid \cup {<<UrlFileName(e.v.parts[i])>> : i \in 1..Len(e.v.parts)},
                    "unchanged")

ProcessExecutable(src, t, old, m, valid) ==
    IF ~Exists(src, SrcExe) THEN StepResult("", t, m, valid, "skipped")
    ELSE LET cur_hash == calculate_sha256(src, SrcExe) IN
         IF old.t # "dict" THEN StepResult("AttributeError", t, m, valid, "none")
         ELSE LET entry == IF "executable" \in DOMAIN old.v
                           THEN old.v.executable ELSE EmptyDict
              IN  IF entry.t # "dict"
                  THEN StepResult("AttributeError", t, m, valid, "none")
                  ELSE LET old_hash == IF "hash" \in DOMAIN entry.v
                                       THEN entry.v.hash ELSE PyNull
                       IN  IF HashUnchanged(cur_hash, old_hash)
                           THEN Reuse(t, old, m, valid)
                           ELSE Republish(src, t, m, valid, cur_hash)

----------------------------------------------------------------------------
(* main(): step 5, the assets (lines 171-191) *)

\* the files os.walk(SOURCE_DIR) hands to the loop body, in order, each as
\* its path relative to the walked tree
RECURSIVE WalkedFiles(_)
WalkedFiles(w) ==
    IF w = <<>> THEN <<>>
    ELSE LET e == Head(w) IN
         [i \in 1..Len(e.files) |-> Append(e.root, e.files[i])]
            \o WalkedFiles(Tail(w))

\* line 175
Excluded(file) == file = EXE_NAME \/ file = VERSION_FILE

\* lines 187-191
AssetEntry(norm_path, h) ==
    [path |-> norm_path, url |-> BASE_URL \o norm_path, hash |-> h]

AddAsset(m, a) == [m EXCEPT !.v.assets = Append(@, a)]

\* lines 177-191 for one file
SyncFile(src, t, m, valid, rel_path) ==
    LET md == MakeDirs(t, Parent(rel_path)) IN
    IF md.err # "" THEN StepResult(md.err, md.tree, m, valid, "")
    ELSE LET cp == Copy2(md.tree, src.files[rel_path], rel_path, Last(rel_path)) IN
         IF cp.err # "" THEN StepResult(cp.err, cp.tree, m, valid, "")
         ELSE LET norm_path == normalize_path(rel_path) IN
              StepResult("", cp.tree,
                         AddAsset(m, AssetEntry(norm_path, calculate_sha256(src, rel_path))),
                         valid \cup {norm_path}, "")

RECURSIVE SyncLoop(_, _, _, _, _)
SyncLoop(src, t, m, valid, paths) ==
    IF paths = <<>> THEN StepResult("", t, m, valid, "")
    ELSE IF Excluded(Last(Head(paths)))
         THEN SyncLoop(src, t, m, valid, Tail(paths))
    ELSE LET r == SyncFile(src, t, m, valid, Head(paths)) IN
         IF r.err # "" THEN r
         ELSE SyncLoop(src, r.target, r.new_manifest, r.valid, Tail(paths))

SyncAssets(src, t, m, valid) ==
    SyncLoop(src, t, m, valid, WalkedFiles(Walk(src, <<>>, TRUE)))

----------------------------------------------------------------------------
(* main(): step 6, the orphans (lines 193-206) *)

\* an orphan test that looks at the files of the root directory only
IsOrphanTopLevel(rel_to_target, valid) ==
    Len(rel_to_target) = 1 /\ rel_to_target \notin valid

\* line 199
IsOrphan(rel_to_target, valid) == normalize_path(rel_to_target) \notin valid

\* lines 196-201
RECURSIVE CleanFiles(_, _, _, _)
CleanFiles(t, root, files, valid) ==
    IF files = <<>> THEN Ok(t)
    ELSE LET p == Append(root, Head(files)) IN
         IF IsOrphan(p, valid)
         THEN LET rm == Remove(t, p) IN
              IF rm.err # "" THEN rm ELSE CleanFiles(rm.tree, root, Tail(files), valid)
         ELSE CleanFiles(t, root, Tail(files), valid)

\* lines 203-206
RECURSIVE CleanDirs(_, _, _)
CleanDirs(t, root, dirs) ==
    IF dirs = <<>> THEN Ok(t)
    ELSE LET d == Append(root, Head(dirs)) IN
         IF Children(t, d) = {}
         THEN LET rm == Rmdir(t, d) IN
              IF rm.err # "" THEN rm ELSE CleanDirs(rm.tree, root, Tail(dirs))
         ELSE CleanDirs(t, root, Tail(dirs))

\* the loop over os.walk(TARGET_FILES_DIR, topdown=False)
RECURSIVE CleanLoop(_, _, _)
CleanLoop(t, w, valid) ==
    IF w = <<>> THEN Ok(t)
    ELSE LET e == Head(w)
             cf == CleanFiles(t, e.root, e.files, valid)
         IN  IF cf.err # "" THEN cf
             ELSE LET cd == CleanDirs(cf.tree, e.root, e.dirs) IN
                  IF cd.err # "" THEN cd ELSE CleanLoop(cd.tree, Tail(w), valid)

\* a cleanup that walks the target tree from the top down
CleanupTopDown(t, valid) == CleanLoop(t, Walk(t, <<>>, TRUE), valid)

\* lines 195-206
Cleanup(t, valid) == CleanLoop(t, Walk(t, <<>>, FALSE), valid)

----------------------------------------------------------------------------
(* The inputs: source trees, rule sources, earlier states of the target *)

\* contents of the source executable: the archive of Exe1 is one chunk, the
\* archive of Exe2 is two
Exe1 == Bin(<<1>>)
Exe2 == Bin(<<2, 2>>)
ExeContents == {Exe1, Exe2}

Asset1 == Bin(<<7>>)
Asset2 == Bin(<<8>>)

\* the asset files of a source tree; the fourth has, in a directory, a file
\* that bears the name of the version marker
AssetConfigs ==
    { [p \in {} |-> NoFile],
      [p \in {<<"a">>} |-> Asset1],
      [p \in {<<"a", "x">>} |-> Asset1],
      [p \in {<<"x">>, <<"a", "x">>, <<"a", VERSION_FILE>>} |-> Asset2],
      [p \in {<<PartName(TMP_ZIP, 0)>>} |-> Asset1] }

\* the files of the source tree that are not assets an editor changes
Reserved == {SrcExe, <<VERSION_FILE>>, Append(DataDir, FINAL_RULES_NAME)}

Restrict(f, S) == [p \in S |-> f[p]]

VersionText == Text(<<"V2.1.0", "\n">>)

\* a rule table that an earlier compilation of other rules left in the source
StaleTable == JsonDoc(PyList(<<>>))

InitSources ==
    { NoTree, EmptyTree,
      MkTree((<<VERSION_FILE>> :> VersionText)
             @@ (Append(DataDir, FINAL_RULES_NAME) :> StaleTable)) }

NoRules == [meta |-> NoFile, txt |-> [i \in {} |-> NoFile]]
SomeRules ==
    [meta |-> JsonDoc(<< [Id |-> "r1", Name |-> "n1"],
                         [Name |-> "n2"],
                         [Id |-> "r2", Status |-> 1] >>),
     txt |-> [i \in {"r1"} |-> Text(<<" ", "h", "\n", "g", "\r", "\n">>)]]
RuleSources == {NoRules, SomeRules}

NoLocals ==
    [version |-> DefaultVersion, old_manifest |-> EmptyDict,
     new_manifest |-> EmptyDict, valid |-> {}, branch |-> "none"]

\* what the run that was killed last had found, for the run that follows it
NoInterrupted == [was |-> FALSE, manifest |-> NoFile, target |-> NoTree]

NoStart ==
    [manifest |-> NoFile, target |-> NoTree, srcRoot |-> FALSE, exe |-> NoFile,
     rerun |-> FALSE, interrupted |-> NoInterrupted, table |-> NoFile]

Outcome(s, e) == [status |-> s, error |-> e]

\* no call of split_file on its own is under way
NoChunker ==
    [pc |-> "none", tree |-> NoTree, source_path |-> <<>>, dest_dir |-> <<>>,
     size |-> CHUNK_SIZE, err |-> "", parts |-> <<>>, before |-> NoTree]

\* no run of main() has started
InitRun ==
    /\ pc = "idle"
    /\ version = NoLocals.version
    /\ old_manifest = NoLocals.old_manifest
    /\ new_manifest = NoLocals.new_manifest
    /\ valid_target_files = NoLocals.valid
    /\ branch = NoLocals.branch
    /\ outcome = Outcome("none", "")
    /\ start = NoStart
    /\ crashes = 0

InitRest ==
    /\ source \in InitSources
    /\ rules \in RuleSources
    /\ InitRun
    /\ chunker = NoChunker

\* a first run: nothing published yet
Init ==
    /\ target = NoTree
    /\ manifest_file = NoFile
    /\ InitRest

----------------------------------------------------------------------------
(* Edits of the source tree between runs *)

\* the process of the last run has exited: by the time the source is edited
\* its memory and exit status are gone
ForgetRun ==
    /\ version' = NoLocals.version
    /\ old_manifest' = NoLocals.old_manifest
    /\ new_manifest' = NoLocals.new_manifest
    /\ valid_target_files' = NoLocals.valid
    /\ branch' = NoLocals.branch
    /\ outcome' = Outcome("none", "")
    /\ start' = NoStart

SourceOf(f) ==
    IF DOMAIN f = {} /\ source = NoTree THEN NoTree ELSE MkTree(f)

SetExe(c) ==
    /\ pc = "idle"
    /\ LET f == source.files
           g == IF c = NoFile THEN Restrict(f, DOMAIN f \ {SrcExe})
                ELSE [p \in DOMAIN f \cup {SrcExe} |-> IF p = SrcExe THEN c ELSE f[p]]
       IN  /\ g # f
           /\ source' = SourceOf(g)
    /\ ForgetRun
    /\ UNCHANGED <<rules, target, manifest_file, pc, crashes, chunker>>

SetAssets(cfg) ==
    /\ pc = "idle"
    /\ LET f == source.files
           g == cfg @@ Restrict(f, DOMAIN f \cap Reserved)
       IN  /\ g # f
           /\ source' = SourceOf(g)
    /\ ForgetRun
    /\ UNCHANGED <<rules, target, manifest_file, pc, crashes, chunker>>

----------------------------------------------------------------------------
(* One run of main() *)

\* lines 102-138
RunBegin ==
    /\ pc = "idle"
    /\ \E now \in 1..MaxTime :
        LET cr == compile_rules(source, rules)
            fatal == cr.err # "" \/ ~Exists(cr.tree, <<>>)
            v == ReadVersion(cr.tree)
        IN  /\ source' = cr.tree
            /\ start' = [manifest |-> manifest_file, target |-> target,
                         srcRoot |-> Exists(source, <<>>),
                         exe |-> IF IsFile(cr.tree, SrcExe)
                                 THEN cr.tree.files[SrcExe] ELSE NoFile,
                         rerun |-> outcome.status = "completed",
                         interrupted |->
                             IF outcome.status # "killed" THEN NoInterrupted
                             ELSE IF start.interrupted.was THEN start.interrupted
                             ELSE [was |-> TRUE, manifest |-> start.manifest,
                                   target |-> start.target],
                         table |-> IF IsFile(source, Append(DataDir, FINAL_RULES_NAME))
                                   THEN source.files[Append(DataDir, FINAL_RULES_NAME)]
                                   ELSE NoFile]
            /\ target' = IF fatal \/ Exists(target, <<>>) THEN target
                         ELSE MakeDirs(target, <<>>).tree
            /\ version' = IF fatal THEN NoLocals.version ELSE v
            /\ old_manifest' = IF fatal THEN NoLocals.old_manifest
                               ELSE LoadManifest(manifest_file)
            /\ new_manifest' = IF fatal THEN NoLocals.new_manifest
                               ELSE InitialManifest(v, now)
            /\ valid_target_files' = {}
            /\ branch' = "none"
            /\ pc' = IF fatal THEN "idle" ELSE "exe"
            /\ outcome' = IF cr.err # "" THEN Outcome("aborted", cr.err)
                          ELSE IF fatal THEN Outcome("exit1", "")
                          ELSE Outcome("running", "")
    /\ UNCHANGED <<rules, manifest_file, crashes, chunker>>

EndStep(err, next) ==
    /\ pc' = IF err = "" THEN next ELSE "idle"
    /\ outcome' = IF err = "" THEN outcome ELSE Outcome("aborted", err)

\* lines 140-169
RunExecutable ==
    /\ pc = "exe"
    /\ LET r == ProcessExecutable(source, target, old_manifest, new_manifest,
                                  valid_target_files)
       IN  /\ target' = r.target
           /\ new_manifest' = r.new_manifest
           /\ valid_target_files' = r.valid
           /\ branch' = r.branch
           /\ EndStep(r.err, "assets")
    /\ UNCHANGED <<source, rules, manifest_file, version, old_manifest, start,
                   crashes, chunker>>

\* lines 171-191
RunAssets ==
    /\ pc = "assets"
    /\ LET r == SyncAssets(source, target, new_manifest, valid_target_files)
       IN  /\ target' = r.target
           /\ new_manifest' = r.new_manifest
           /\ valid_target_files' = r.valid
           /\ EndStep(r.err, "cleanup")
    /\ UNCHANGED <<source, rules, manifest_file, version, old_manifest, branch,
                   start, crashes, chunker>>

\* lines 193-206
RunCleanup ==
    /\ pc = "cleanup"
    /\ LET r == Cleanup(target, valid_target_files)
       IN  /\ target' = r.tree
           /\ EndStep(r.err, "write")
    /\ UNCHANGED <<source, rules, manifest_file, version, old_manifest,
                   new_manifest, valid_target_files, branch, start, crashes,
                   chunker>>

\* line 209: open(manifest_path, "w") truncates the file
RunOpenManifest ==
    /\ pc = "write"
    /\ manifest_file' = Text(<<>>)
    /\ pc' = "dump"
    /\ UNCHANGED <<source, rules, target, version, old_manifest, new_manifest,
                   valid_target_files, branch, outcome, start, crashes,
                   chunker>>

\* lines 210-212: json.dump, and the run is complete
RunDumpManifest ==
    /\ pc = "dump"
    /\ manifest_file' = JsonDoc(new_manifest)
    /\ pc' = "idle"
    /\ outcome' = Outcome("completed", "")
    /\ UNCHANGED <<source, rules, target, version, old_manifest, new_manifest,
                   valid_target_files, branch, start, crashes, chunker>>

Next ==
    \/ \E c \in ExeContents \cup {NoFile} : SetExe(c)
    \/ \E cfg \in AssetConfigs : SetAssets(cfg)
    \/ RunBegin
    \/ RunExecutable
    \/ RunAssets
    \/ RunCleanup
    \/ RunOpenManifest
    \/ RunDumpManifest

Spec == Init /\ [][Next]_vars

TreesWellFormed ==
    /\ source = NoTree \/ WellFormed(source)
    /\ target = NoTree \/ WellFormed(target)
    /\ \A p \in DOMAIN source.files \cup source.dirs \cup DOMAIN target.files \cup target.dirs :
          \A i \in 1..Len(p) : p[i] \in Names

----------------------------------------------------------------------------
(* Runs that start from what an earlier publish, or anything else, left *)

PartFile(i) == <<PartName(TMP_ZIP, i)>>

\* a manifest as an earlier version of the script may have left it: Exe1
\* published, the stored flag false
OlderManifest ==
    PyDict([version |-> DefaultVersion, timestamp |-> 1,
            executable |-> PyDict([update_required |-> FALSE,
                                   hash |-> HexDigest(Exe1),
                                   parts |-> <<PartUrl(PartName(TMP_ZIP, 0))>>]),
            assets |-> <<>>])

\* the target tree that goes with it
OlderTarget == MkTree([p \in {PartFile(0)} |-> Bin(ReadChunk(ZipOf(Exe1).bytes, 0))])

\* the files of a target tree that nothing refers to: a part of a longer
\* archive, a stray file, a file in a directory, a file two directories down
StaleFiles ==
    (PartFile(0) :> Bin(ReadChunk(ZipOf(Exe1).bytes, 0)))
        @@ (PartFile(1) :> Bin(<<9>>))
        @@ (<<"old.bin">> :> Bin(<<9>>))
        @@ (<<"a", "x">> :> Asset2)
        @@ (<<"Data", "a", "old.bin">> :> Bin(<<9>>))

\* the target tree that holds them, and a directory that is empty already
StaleTarget ==
    [MkTree(StaleFiles) EXCEPT !.dirs = @ \cup {<<"Data", "x">>}]

StartStates ==
    { <<NoTree, NoFile>>,
      <<StaleTarget, NoFile>>,
      <<EmptyTree, Text(<<"{">>)>>,
      <<EmptyTree, JsonDoc(PyList(<<>>))>>,
      <<EmptyTree, JsonDoc(PyDict([executable |-> PyNull]))>>,
      <<OlderTarget, JsonDoc(PyDict([executable |-> PyDict([hash |-> HexDigest(Exe1)])]))>>,
      <<OlderTarget, JsonDoc(OlderManifest)>>,
      <<StaleTarget, JsonDoc(OlderManifest)>> }

InitAny ==
    /\ \E s \in StartStates : target = s[1] /\ manifest_file = s[2]
    /\ InitRest

SpecAny == InitAny /\ [][Next]_vars

----------------------------------------------------------------------------
(* Runs that are killed from outside *)

\* the process is killed between two steps, or between the open and the dump
\* of the manifest
Kill ==
    /\ pc # "idle"
    /\ crashes < MaxCrashes
    /\ crashes' = crashes + 1
    /\ pc' = "idle"
    /\ outcome' = Outcome("killed", "")
    /\ UNCHANGED <<source, rules, target, manifest_file, version, old_manifest,
                   new_manifest, valid_target_files, branch, start, chunker>>

NextCrash == Next \/ Kill

SpecCrash == Init /\ [][NextCrash]_vars

----------------------------------------------------------------------------
(* What the claims speak about *)

\* the run of main() has just ended by writing the manifest
Completed == pc = "idle" /\ outcome.status = "completed"

\* the run has just ended, in whatever way
Ended == pc = "idle" /\ outcome.status \in {"completed", "aborted", "exit1", "killed"}

\* the manifest on disk, when it is a JSON object
Written == manifest_file.value.v

\* the paths the manifest on disk names: one per asset entry, and the last
\* segment of each part URL
WrittenAssetPaths == {Written.assets[i].path : i \in 1..Len(Written.assets)}
WrittenPartUrls == Written.executable.v.parts
WrittenPartFiles == {<<Last(WrittenPartUrls[i])>> : i \in 1..Len(WrittenPartUrls)}

\* how many entries of the manifest on disk refer to file p of the target
References(p) ==
    Cardinality({i \in 1..Len(Written.assets) : Written.assets[i].path = p})
    + Cardinality({i \in 1..Len(WrittenPartUrls) : <<Last(WrittenPartUrls[i])>> = p})

\* the executable entry of the manifest the run found, when that manifest is
\* a JSON object that has one
HadEntry ==
    /\ start.manifest.type = "json"
    /\ start.manifest.value.t = "dict"
    /\ "executable" \in DOMAIN start.manifest.value.v
    /\ start.manifest.value.v.executable.t = "dict"
PreviousEntry == start.manifest.value.v.executable

\* the source executable existed when the run started, and its digest is the
\* one the previous manifest stores
DigestStored ==
    /\ start.exe # NoFile
    /\ HadEntry
    /\ "hash" \in DOMAIN PreviousEntry.v
    /\ PreviousEntry.v.hash = HexDigest(start.exe)

\* the source executable existed when the run started, and the previous
\* manifest stores another digest or none
DigestDiffers == start.exe # NoFile /\ ~DigestStored

PreviousPartUrls ==
    IF HadEntry /\ "parts" \in DOMAIN PreviousEntry.v
    THEN {PreviousEntry.v.parts[i] : i \in 1..Len(PreviousEntry.v.parts)} ELSE {}

\* number of chunks of an archive of n bytes
ChunkCount(n) == (n + CHUNK_SIZE - 1) \div CHUNK_SIZE

\* C1: after a run that wrote the manifest, every file the manifest names (each
\* asset path, the last segment of each part URL) is a file of the target tree.
ManifestFilesExist ==
    Completed =>
        \A p \in WrittenAssetPaths \cup WrittenPartFiles : IsFile(target, p)

\* C2: after a run that wrote the manifest, every file of the target tree is
\* referred to by exactly one entry of the manifest.
EveryFileReferencedOnce ==
    Completed => \A p \in DOMAIN target.files : References(p) = 1

\* C2, the half the code keeps: no file of the target tree is unreferenced.
NoFileUnreferenced ==
    Completed => \A p \in DOMAIN target.files : References(p) >= 1

\* C3 (idempotence): two manifests are equal in every field but the timestamp
SameButTimestamp(a, b) ==
    /\ a.t = "dict" /\ b.t = "dict"
    /\ DOMAIN a.v = DOMAIN b.v
    /\ \A k \in DOMAIN a.v \ {"timestamp"} : a.v[k] = b.v[k]

\* C3: a run that completes right after a completed run, with no edit of the
\* source in between, writes the manifest the earlier run wrote, but for the
\* timestamp (version, executable entry, assets in the same order).
Idempotent ==
    (Completed /\ start.rerun) =>
        SameButTimestamp(manifest_file.value, start.manifest.value)

\* C3's case: a second run reused the executable entry, listed several
\* assets, and read another time from the clock
IdempotentWitness ==
    /\ Completed /\ start.rerun
    /\ branch = "unchanged"
    /\ Len(Written.assets) >= 2
    /\ Written.timestamp # start.manifest.value.v.timestamp

\* C4 as claimed: when the source executable exists and its digest differs from
\* the stored one, the new entry has update_required = true, the current
\* digest, and part URLs none of which is a part URL of the previous manifest.
RepublishedUrlsDistinctFromPrevious ==
    (Completed /\ DigestDiffers) =>
        /\ Written.executable.v.update_required = TRUE
        /\ Written.executable.v.hash = HexDigest(start.exe)
        /\ \A i \in 1..Len(WrittenPartUrls) : WrittenPartUrls[i] \notin PreviousPartUrls

\* C4 as amended: when the source executable exists and its digest differs from
\* the stored one, the new entry has update_required = true, the current
\* digest, and one part URL per chunk of the new archive, BASE_URL followed by
\* "update.zip.part" and the chunk's index from 000 up: at least one, pairwise
\* distinct, and rebuilt by this run, whatever the previous manifest listed.
RepublishedEntryRebuilt ==
    (Completed /\ DigestDiffers) =>
        LET n == ChunkCount(Len(ZipOf(start.exe).bytes)) IN
        /\ Written.executable.v.update_required = TRUE
        /\ Written.executable.v.hash = HexDigest(start.exe)
        /\ n >= 1
        /\ WrittenPartUrls = [i \in 1..n |-> BASE_URL \o PartFile(i - 1)]
        /\ \A i, j \in 1..n : i # j => WrittenPartUrls[i] # WrittenPartUrls[j]

\* C4's case: an executable of two chunks republished over a manifest that
\* stored the digest of another executable
RepublishedWitness ==
    /\ Completed /\ DigestDiffers
    /\ HadEntry /\ PreviousEntry.v.hash = HexDigest(Exe1)
    /\ start.exe = Exe2
    /\ Len(WrittenPartUrls) = 2

\* C5: when the source executable exists and its digest is the one the previous
\* manifest stores, the new manifest's executable entry is the previous entry,
\* field for field (hash, part URLs in order, the stored update_required).
UnchangedEntryVerbatim ==
    (Completed /\ DigestStored) => Written.executable = PreviousEntry

\* C5's case: a stored update_required = true carried over with two part URLs
UnchangedWitness ==
    /\ Completed /\ DigestStored
    /\ PreviousEntry.v.update_required = TRUE
    /\ Len(WrittenPartUrls) = 2
    /\ branch = "unchanged"

\* C6: in a run that finds the stored digest unchanged, no archive is made and
\* every part file the previous manifest refers to stays as it was when the
\* run started, through every step of the run.
UnchangedPartsUntouched ==
    DigestStored =>
        /\ branch # "republished"
        /\ \A u \in PreviousPartUrls :
              IsFile(start.target, <<Last(u)>>) =>
                  /\ IsFile(target, <<Last(u)>>)
                  /\ target.files[<<Last(u)>>] = start.target.files[<<Last(u)>>]

\* C7: after a run that wrote the manifest, a file that was in the target tree
\* when the run started and is neither an asset path nor a part file name of
\* the new manifest is gone.
OrphansRemoved ==
    Completed =>
        \A p \in DOMAIN start.target.files :
            p \notin WrittenAssetPaths \cup WrittenPartFiles => ~IsFile(target, p)

\* C7's case: the second part of a longer archive, and a file in a directory,
\* removed by a run that publishes one part
OrphansRemovedWitness ==
    /\ Completed
    /\ Len(WrittenPartUrls) = 1
    /\ IsFile(start.target, PartFile(1)) /\ ~IsFile(target, PartFile(1))
    /\ IsFile(start.target, <<"a", "x">>) /\ ~IsFile(target, <<"a", "x">>)

\* C8: however a run ends, the manifest on disk is the complete new manifest
\* (the run completed) or exactly the file the run found (it did not).
ManifestAllOrNothing ==
    Ended =>
        IF outcome.status = "completed"
        THEN manifest_file = JsonDoc(new_manifest)
        ELSE manifest_file = start.manifest

\* C9: a run started while the source root does not exist exits with status 1,
\* writes no manifest and leaves the target tree as it was.
MissingSourceRootFatal ==
    (Ended /\ ~start.srcRoot) =>
        /\ outcome.status = "exit1"
        /\ manifest_file = start.manifest
        /\ target = start.target

\* a previous manifest that is absent, does not parse, or is not an object of
\* the manifest's shape
ManifestShaped(v) ==
    /\ v.t = "dict"
    /\ {"version", "timestamp", "executable", "assets"} \subseteq DOMAIN v.v
    /\ v.v.executable.t = "dict"
    /\ {"update_required", "hash", "parts"} \subseteq DOMAIN v.v.executable.v
Unusable(f) == f.type # "json" \/ ~ManifestShaped(f.value)

\* the exceptions that reading old_manifest raises
ManifestErrors == {"AttributeError", "KeyError"}

\* C10: a run that finds an unusable previous manifest is not ended by it, and
\* when it completes with a source executable present, that executable is
\* republished.
UnusableManifestRecovered ==
    (Ended /\ start.srcRoot /\ Unusable(start.manifest)) =>
        /\ outcome.error \notin ManifestErrors
        /\ (Completed /\ start.exe # NoFile) =>
              /\ Written.executable.v.update_required = TRUE
              /\ Written.executable.v.hash = HexDigest(start.exe)

----------------------------------------------------------------------------
(* C11: recovery from an interrupted run *)

\* main() from line 107 on, run without interruption on source tree src from
\* target tree t0 and manifest file mf: [err, target, manifest]
UninterruptedRun(src, t0, mf, now) ==
    LET t1 == IF Exists(t0, <<>>) THEN t0 ELSE MakeDirs(t0, <<>>).tree
        ex == ProcessExecutable(src, t1, LoadManifest(mf),
                                InitialManifest(ReadVersion(src), now), {})
    IN  IF ex.err # "" THEN [err |-> ex.err, target |-> ex.target, manifest |-> mf]
        ELSE LET sy == SyncAssets(src, ex.target, ex.new_manifest, ex.valid) IN
             IF sy.err # "" THEN [err |-> sy.err, target |-> sy.target, manifest |-> mf]
             ELSE LET cl == Cleanup(sy.target, sy.valid) IN
                  IF cl.err # "" THEN [err |-> cl.err, target |-> cl.tree, manifest |-> mf]
                  ELSE [err |-> "", target |-> cl.tree,
                        manifest |-> JsonDoc(sy.new_manifest)]

\* the run that has just completed followed a killed run, with no edit of the
\* source in between
Recovered == Completed /\ start.interrupted.was

\* what the killed run would have left had it not been killed
Uninterrupted ==
    UninterruptedRun(source, start.interrupted.target, start.interrupted.manifest,
                     Written.timestamp)

\* the part files of the target tree
IsPartFile(p) == Len(p) = 1 /\ \E i \in 0..3 : p = PartFile(i)

\* C11: when a run is killed and main() is then run to completion on the same
\* source, the target tree and the manifest (but for the timestamp) are those
\* an uninterrupted run would have produced from where the killed run
\* started, and no part file is left that the manifest does not refer to.
RecoveryEqualsUninterrupted ==
    (Recovered /\ Uninterrupted.err = "") =>
        /\ target = Uninterrupted.target
        /\ SameButTimestamp(manifest_file.value, Uninterrupted.manifest.value)
        /\ \A p \in DOMAIN target.files :
              IsPartFile(p) => p \in WrittenPartFiles \cup WrittenAssetPaths

----------------------------------------------------------------------------
(* C12: the part list and the presence of the executable *)

\* C12: in every manifest a completed run writes, starting from an empty
\* target, the part list of the executable entry is empty exactly when the run
\* found no source executable, and the entry is then
\* {update_required: false, hash: "", parts: []}.
PartsEmptyIffNoExecutable ==
    Completed =>
        /\ (WrittenPartUrls = <<>>) <=> (start.exe = NoFile)
        /\ start.exe = NoFile => Written.executable = DefaultExecutable

\* C12's case: the executable was published, then removed from the source, and
\* the run after that wrote the empty entry
ExecutableRemovedWitness ==
    /\ Completed
    /\ start.exe = NoFile
    /\ HadEntry /\ PreviousEntry.v.parts # <<>>
    /\ Written.executable = DefaultExecutable

----------------------------------------------------------------------------
(* The chunker on its own: split_file on any file, under any chunk size *)

ByteValues == {1, 2}
ByteSeqs == UNION {[1..k -> ByteValues] : k \in 0..MaxFileLen}

\* the base names of the files handed to split_file
ChunkNames == {TMP_ZIP, "a"}

\* what an earlier split may have left where the first part goes
StalePart == Bin(<<9, 9, 9, 9, 9>>)

InitChunk ==
    /\ \E bytes \in ByteSeqs, size \in 1..MaxChunk, name \in ChunkNames,
          stale \in BOOLEAN :
          LET f == (<<name>> :> Bin(bytes))
                     @@ (IF stale THEN <<PartName(name, 0)>> :> StalePart
                         ELSE [p \in {} |-> NoFile])
          IN  chunker = [NoChunker EXCEPT !.pc = "ready", !.tree = MkTree(f),
                                          !.source_path = <<name>>,
                                          !.dest_dir = <<>>, !.size = size,
                                          !.before = MkTree(f)]
    /\ source = NoTree
    /\ rules = NoRules
    /\ target = NoTree
    /\ manifest_file = NoFile
    /\ InitRun

\* lines 34-48
SplitFile ==
    /\ chunker.pc = "ready"
    /\ LET r == split_file_of(chunker.tree, chunker.source_path, chunker.dest_dir,
                              chunker.size)
       IN  chunker' = [chunker EXCEPT !.pc = "done", !.tree = r.tree,
                                      !.err = r.err, !.parts = r.parts]
    /\ UNCHANGED <<source, rules, target, manifest_file, pc, version,
                   old_manifest, new_manifest, valid_target_files, branch,
                   outcome, start, crashes>>

NextChunk == SplitFile

SpecChunk == InitChunk /\ [][NextChunk]_vars

\* the bytes of the file that was split
SplitBytes == chunker.before.files[chunker.source_path].bytes

\* the part file that a returned name refers to
PartOf(i) == chunker.tree.files[Append(chunker.dest_dir, chunker.parts[i])]

\* the bytes of the parts i.. of the returned list, one after the other
RECURSIVE ConcatParts(_)
ConcatParts(i) ==
    IF i > Len(chunker.parts) THEN <<>> ELSE PartOf(i).bytes \o ConcatParts(i + 1)

\* a number below 1000 written with three digits
ThreeDigits(i) ==
    ToString(i \div 100) \o ToString((i \div 10) % 10) \o ToString(i % 10)

\* C13: split_file returns the names <basename>.part<NNN> with the indices
\* 000, 001, ... in increasing order, one per part; it writes
\* ceil(fileSize / chunkSize) parts, each of chunkSize bytes but the last, which
\* has between one and chunkSize bytes; and the parts, concatenated in index
\* order, are the source byte for byte.
ChunkerDecomposition ==
    (chunker.pc = "done" /\ chunker.err = "") =>
        LET n == (Len(SplitBytes) + chunker.size - 1) \div chunker.size IN
        /\ chunker.parts =
              [i \in 1..n |-> Last(chunker.source_path) \o ".part" \o ThreeDigits(i - 1)]
        /\ \A i \in 1..n :
              /\ IsFile(chunker.tree, Append(chunker.dest_dir, chunker.parts[i]))
              /\ i < n => Len(PartOf(i).bytes) = chunker.size
              /\ i = n => Len(PartOf(i).bytes) \in 1..chunker.size
        /\ ConcatParts(1) = SplitBytes
        /\ chunker.tree.files[chunker.source_path] = Bin(SplitBytes)

\* C13's case: a file split into several parts, the last one shorter, the
\* first one written over a longer file an earlier split left
ChunkerWitness ==
    /\ chunker.pc = "done" /\ chunker.err = ""
    /\ Len(chunker.parts) >= 2
    /\ Len(PartOf(Len(chunker.parts)).bytes) < chunker.size
    /\ IsFile(chunker.before, Append(chunker.dest_dir, chunker.parts[1]))
    /\ PartOf(1) # StalePart

----------------------------------------------------------------------------
(* C14: the asset list *)

\* the files of the source tree that are assets: all but the executable and
\* the version marker of the source root
SourceAssets == DOMAIN source.files \ {SrcExe, <<VERSION_FILE>>}

\* C14: after a run that wrote the manifest, the asset list has exactly one
\* entry for every file of the source tree but the executable and the version
\* marker of the source root, and none for those two; each entry has the
\* file's relative path, BASE_URL followed by that path, and the digest of the
\* source file, and the target file at that path has the source's content.
AssetCoverage ==
    Completed =>
        /\ \A p \in SourceAssets :
              Cardinality({i \in 1..Len(Written.assets) : Written.assets[i].path = p}) = 1
        /\ \A i \in 1..Len(Written.assets) :
              LET a == Written.assets[i] IN
              /\ a.path \in SourceAssets
              /\ a.url = BASE_URL \o a.path
              /\ a.hash = HexDigest(source.files[a.path])
              /\ IsFile(target, a.path)
              /\ target.files[a.path] = source.files[a.path]

----------------------------------------------------------------------------
(* C15: empty directories of the target tree *)

\* C15: after a run that wrote the manifest, no directory beneath the target
\* files root is empty, chains of directories emptied in the same pass
\* included, and the target files root itself is still there.
NoEmptyDirectory ==
    Completed =>
        /\ IsDir(target, <<>>)
        /\ \A d \in target.dirs : d # <<>> => Children(target, d) # {}

\* C15's case: the run found a file two directories down, a directory with one
\* file and a directory that was empty already, removed all of them and left
\* the target files root empty
EmptyChainWitness ==
    /\ Completed
    /\ IsFile(start.target, <<"Data", "a", "old.bin">>)
    /\ IsDir(start.target, <<"Data", "x">>)
    /\ IsFile(start.target, <<"a", "x">>)
    /\ target = EmptyTree

----------------------------------------------------------------------------
(* C16: the order of the steps *)

RulesTablePath == Append(DataDir, FINAL_RULES_NAME)

\* the rule table that compiling the rule sources gives
FreshTable == JsonDoc(PyList(CompileList(rules.meta.value, rules.txt)))

\* the manifest on disk lists the freshly compiled rule table
RuleTablePublished ==
    (Completed /\ rules.meta # NoFile) =>
        \E i \in 1..Len(Written.assets) :
            /\ Written.assets[i].path = RulesTablePath
            /\ Written.assets[i].hash = HexDigest(FreshTable)

\* the positions of a run after its set-up, in order
AfterCompile == {"exe", "assets", "cleanup", "write", "dump"}
BeforeManifest == {"exe", "assets", "cleanup", "write"}
AfterCleanup == {"write", "dump"}

\* C16: within one run the steps happen in the order rule compilation,
\* executable publish, asset sync, orphan cleanup, manifest write: the rule
\* table is compiled before the executable is looked at; no asset is listed
\* before the executable step has decided; the manifest on disk is the one
\* the run found until the cleanup is over, and from then on the target tree
\* holds no orphan; so the rule table compiled by a run is an asset of that
\* run's manifest, with the digest of the fresh content.
StepsInOrder ==
    /\ (pc \in AfterCompile /\ rules.meta # NoFile) =>
          /\ IsFile(source, RulesTablePath)
          /\ source.files[RulesTablePath] = FreshTable
    /\ pc = "exe" => (branch = "none" /\ new_manifest.v.assets = <<>>)
    /\ pc = "assets" => (branch # "none" /\ new_manifest.v.assets = <<>>)
    /\ pc = "cleanup" =>
          \A i \in 1..Len(new_manifest.v.assets) :
              new_manifest.v.assets[i].path \in valid_target_files
    /\ pc \in BeforeManifest => manifest_file = start.manifest
    /\ (pc \in AfterCleanup \/ Completed) =>
          \A p \in DOMAIN target.files : p \in valid_target_files
    /\ RuleTablePublished

\* C16's case: the source held the table of an earlier compilation, other
\* than the fresh one, when the run began, and the target held orphans for the
\* cleanup to remove before the manifest was written
FreshTableWitness ==
    /\ Completed /\ rules.meta # NoFile
    /\ start.table \notin {NoFile, FreshTable}
    /\ \E p \in DOMAIN start.target.files : ~IsFile(target, p)
    /\ \E i \in 1..Len(Written.assets) :
          Written.assets[i].path = RulesTablePath

----------------------------------------------------------------------------
(* The rule compiler on its own: compile_rules on any metadata list *)

\* the shapes of a metadata item: with and without "Id", with an empty "Id",
\* with and without "Status", with a "Hosts" field of its own
RuleItems ==
    { [Id |-> "r1", Name |-> "n1"],
      [Name |-> "n2"],
      [Id |-> "r2", Status |-> 1],
      [Id |-> "", Name |-> "n3"],
      [Id |-> "r2", Hosts |-> "old", Status |-> 0] }

RuleLists == UNION {[1..k -> RuleItems] : k \in 0..MaxRules}

\* the host-list files next to the metadata: none, one for r1, a blank one
\* for r2 as well
HostFiles ==
    { [i \in {} |-> NoFile],
      [i \in {"r1"} |-> Text(<<" ", "h", "\n", "g", "\r", "\n">>)],
      [i \in {"r1", "r2"} |->
          IF i = "r1" THEN Text(<<"h">>) ELSE Text(<<" ", "\n">>)] }

InitRules ==
    /\ \E l \in RuleLists, h \in HostFiles : rules = [meta |-> JsonDoc(l), txt |-> h]
    /\ source \in {NoTree, EmptyTree}
    /\ target = NoTree
    /\ manifest_file = NoFile
    /\ InitRun
    /\ chunker = NoChunker

\* line 105: compile_rules() by itself
CompileRules ==
    /\ pc = "idle" /\ outcome.status = "none"
    /\ LET cr == compile_rules(source, rules)
       IN  /\ source' = cr.tree
           /\ outcome' = Outcome("compiled", cr.err)
    /\ UNCHANGED <<rules, target, manifest_file, pc, version, old_manifest,
                   new_manifest, valid_target_files, branch, start, crashes,
                   chunker>>

NextRules == CompileRules

SpecRules == InitRules /\ [][NextRules]_vars

\* compile_rules has returned
Compiled == outcome.status = "compiled"

rules_list == rules.meta.value
compiled_list == source.files[Append(DataDir, FINAL_RULES_NAME)].value.v

\* the items of the metadata list that have the field "Id", in input order
WithId == SelectSeq(rules_list, LAMBDA item : "Id" \in DOMAIN item)

\* those whose "Id" is not empty
WithNonEmptyId ==
    SelectSeq(rules_list, LAMBDA item : "Id" \in DOMAIN item /\ item.Id # "")

\* output item out is input item item compiled: the fields other than Hosts
\* and Status are kept, Status is the input's or 0, and Hosts is the empty
\* string when there is no host-list file for the Id
CompiledFrom(out, item) ==
    /\ DOMAIN out = DOMAIN item \cup {"Hosts", "Status"}
    /\ \A k \in DOMAIN item \ {"Hosts", "Status"} : out[k] = item[k]
    /\ out.Status = IF "Status" \in DOMAIN item THEN item.Status ELSE 0
    /\ item.Id \notin DOMAIN rules.txt => out.Hosts = PyStr(<<>>)

\* the compiled list is, item for item and in order, what list kept gives
CompiledExactly(kept) ==
    /\ Len(compiled_list) = Len(kept)
    /\ \A i \in 1..Len(kept) : CompiledFrom(compiled_list[i], kept[i])

\* C17 as claimed: compile_rules never fails over an item, and the compiled
\* list has, in input order, exactly one item for each metadata item that has
\* the field "Id" and none for the others; each keeps the other fields, has
\* the input's Status or 0, and has empty Hosts when there is no host-list
\* file for its Id.
OneItemPerIdField ==
    Compiled => (outcome.error = "" /\ CompiledExactly(WithId))

\* C17 as amended: the same for the metadata items whose "Id" is present and
\* not empty; an item whose "Id" is empty is skipped like one that has none.
OneItemPerNonEmptyId ==
    Compiled => (outcome.error = "" /\ CompiledExactly(WithNonEmptyId))

\* C17's case: a list in which an item without "Id" and one with an empty
\* "Id" stand between compiled ones, one of which has no host-list file and
\* no Status
RuleCompilationWitness ==
    /\ Compiled
    /\ Len(rules_list) = 3
    /\ "Id" \notin DOMAIN rules_list[1]
    /\ rules_list[2] = [Id |-> "r2", Status |-> 1]
    /\ rules_list[3] = [Id |-> "", Name |-> "n3"]
    /\ Len(compiled_list) = 1
    /\ compiled_list[1].Hosts = PyStr(<<>>)

----------------------------------------------------------------------------
(* C18: the part files and the stored digest *)

\* runs, changes of the source executable and kills, the assets left alone
NextRevert ==
    \/ \E c \in ExeContents \cup {NoFile} : SetExe(c)
    \/ RunBegin
    \/ RunExecutable
    \/ RunAssets
    \/ RunCleanup
    \/ RunOpenManifest
    \/ RunDumpManifest
    \/ Kill

SpecRevert == Init /\ [][NextRevert]_vars

\* the part files the manifest names are, in order, the chunks of the archive
\* of executable e
PartsAreChunksOf(e) ==
    LET bytes == ZipOf(e).bytes IN
    /\ Len(WrittenPartUrls) = ChunkCount(Len(bytes))
    /\ \A i \in 1..Len(WrittenPartUrls) :
          LET p == <<Last(WrittenPartUrls[i])>> IN
          /\ IsFile(target, p)
          /\ target.files[p] = Bin(ReadChunk(bytes, i - 1))

\* C18: after every run that wrote the manifest, whatever runs, source changes
\* and killed runs came before, the part files named by the manifest's
\* executable entry are, in order, the chunks of an archive of the executable
\* whose digest is the entry's hash.
PartsMatchStoredDigest ==
    (Completed /\ WrittenPartUrls # <<>>) =>
        \E e \in ExeContents :
            /\ Written.executable.v.hash = HexDigest(e)
            /\ PartsAreChunksOf(e)

----------------------------------------------------------------------------
(* C19: the update_required flag *)

\* C19: starting with no manifest, in every manifest a completed run writes
\* update_required is true exactly when the stored hash is not empty, and a
\* run that finds the source executable writes true, whether it republished
\* the executable or found it unchanged: once published, the flag does not
\* go back to false while the executable is there.
FlagFollowsHash ==
    Completed =>
        /\ (Written.executable.v.update_required = TRUE)
              <=> (Written.executable.v.hash # PyStr(<<>>))
        /\ start.exe # NoFile => Written.executable.v.update_required = TRUE

\* C19's case: a run found the executable it had published before, unchanged,
\* and wrote the flag true again
FlagStaysWitness ==
    /\ Completed
    /\ branch = "unchanged"
    /\ start.rerun
    /\ Len(WrittenPartUrls) = 1
    /\ Written.executable.v.update_required = TRUE

----------------------------------------------------------------------------
(* C20: runs over the target tree of earlier runs *)

\* C20: a run started with an existing source root ends by writing the
\* manifest, whatever target tree earlier runs left; a path that was an asset
\* file in the previous run and is a directory of the source now, or a
\* directory then and a file now, does not end the run with an error.
RunEndsWithManifest ==
    (Ended /\ start.srcRoot) => outcome.status = "completed"

====
